---- MODULE Spec2Model ----
(***************************************************************************)
(* A model of src/automatic_summarizer.py: the extractive summarizer whose *)
(* main() validates its configuration, reads and splits the source text,   *)
(* vectorizes the sentences over the vocabulary, ranks them by average     *)
(* cosine similarity (textrank) and assembles the summary.                 *)
(*                                                                         *)
(* Text is a sequence of tokens.  A token is a word (alphanumeric) or a    *)
(* punctuation mark; a sentence ends after a sentence-ending mark.         *)
(*                                                                         *)
(* Numbers.  compression_ratio and the product len*(1-compression_ratio)   *)
(* are IEEE-754 doubles, modelled exactly: a double in [0, 8) is the       *)
(* integer count of units of 2^-56 it equals, written <<hi, lo>> in base   *)
(* 2^28, and every operation rounds to 53 significant bits, ties to even.  *)
(* Cosine similarities and centrality scores are doubles whose last bits   *)
(* depend on the formula the installed scipy uses.  They are modelled as   *)
(* the real number, cut to six decimal places and counted in units of      *)
(* 1/ScoreUnit (a multiple of every divisor n-1 the model reaches),        *)
(* together with the rank "ulp" of the double among the doubles that stand *)
(* for the same real number, and one extra value NaN.  Two scores computed *)
(* by the same operations on the same doubles are the same double; two     *)
(* scores that are equal as real numbers but computed from different       *)
(* doubles may differ in the last bit either way, and textrank's order of  *)
(* them is a choice (Roundings).                                           *)
(***************************************************************************)
EXTENDS Integers, Sequences, FiniteSets, TLC

VARIABLES
    pc,                      \* position of main()
    compression_ratio,       \* main's compression_ratio: [type, tenths]
    source_text_path,        \* main's source_text_path: [exists, ext, reads]
    file_text,               \* content of the file at source_text_path
    source_text,             \* main's source_text
    sentences,               \* main's sentences
    unique_words_in_source,  \* main's unique_words_in_source
    sentence_vectors,        \* main's sentence_vectors
    cosine_calls,            \* pairs <<i, j>> textrank passed to spatial.distance.cosine
    average_similarities,    \* main's average_similarities (the ranked list)
    sentences_to_keep,       \* generate_summary's sentences_to_keep
    summary,                 \* main's summary
    stdout,                  \* what has been printed, in order
    calls,                   \* the functions main has called, in order
    ret                      \* main's return value

vars == <<pc, compression_ratio, source_text_path, file_text, source_text,
          sentences, unique_words_in_source, sentence_vectors, cosine_calls,
          average_similarities, sentences_to_keep, summary, stdout, calls, ret>>

(***************************************************************************)
(* Bounds of the model.                                                    *)
(***************************************************************************)
\* longest source text, in tokens
MaxLen == 6
\* compression ratios are the decimal literals p/RatioDen (at most 16, so that
\* every nonzero literal is at least 2^-4 and has its 53 bits above 2^-56)
RatioDen == 10
\* most sentences handed to generate_summary alone (at most 7: hi*n < 2^31)
MaxSentences == 5

\* the most words in a sentence of the four-sentence documents
MaxWords == 2

Words == {"a", "b"}
Marks == {"."}
Tokens == Words \cup Marks
Space == " "

(***************************************************************************)
(* Sequences.                                                              *)
(***************************************************************************)
RECURSIVE SeqsUpTo(_, _)
SeqsUpTo(S, n) ==
    IF n = 0 THEN {<<>>}
    ELSE LET shorter == SeqsUpTo(S, n - 1)
         IN  shorter \cup {Append(s, x) : s \in {t \in shorter : Len(t) = n - 1}, x \in S}

Range(s) == {s[k] : k \in 1..Len(s)}

RECURSIVE Concat(_)
Concat(ss) == IF ss = <<>> THEN <<>> ELSE Head(ss) \o Concat(Tail(ss))

(***************************************************************************)
(* IEEE-754 doubles in [0, 8), exactly: <<hi, lo>> is hi*2^28 + lo units   *)
(* of 2^-56.                                                               *)
(***************************************************************************)
Limb == 2^28
HalfLimb == 2^14
\* hi \div u < Mant  <=>  the value is below 2^53 * u units
Mant == 2^25

DblOne == <<Limb, 0>>

\* the spacing of doubles around the value <<hi, lo>>, in units of 2^-56
RECURSIVE UlpFrom(_, _)
UlpFrom(hi, u) == IF hi \div u < Mant THEN u ELSE UlpFrom(hi, 2 * u)
Ulp(x) == UlpFrom(x[1], 1)

\* x + num/den units (0 <= num < den) rounded to the nearest double, ties to even
Round53(x, num, den) ==
    LET u    == Ulp(x)
        low  == x[2] % u
        base == x[2] - low
        up   == IF base + u = Limb THEN <<x[1] + 1, 0>> ELSE <<x[1], base + u>>
        down == <<x[1], base>>
        twice == 2 * (low * den + num)
    IN  IF twice > u * den THEN up
        ELSE IF twice < u * den THEN down
        ELSE IF (base \div u) % 2 = 0 THEN down ELSE up

\* the double a decimal literal p/q denotes (0 <= p <= q): long division of
\* p * 2^56 by q, 14 bits at a time, then rounding
DoubleOf(p, q) ==
    IF p = q THEN DblOne
    ELSE LET d1 == (p * HalfLimb) \div q
             r1 == (p * HalfLimb) % q
             d2 == (r1 * HalfLimb) \div q
             r2 == (r1 * HalfLimb) % q
             d3 == (r2 * HalfLimb) \div q
             r3 == (r2 * HalfLimb) % q
             d4 == (r3 * HalfLimb) \div q
             r4 == (r3 * HalfLimb) % q
         IN  Round53(<<d1 * HalfLimb + d2, d3 * HalfLimb + d4>>, r4, q)

\* a slip: the ratio itself, with the "1-" left out
OneMinusForgotten(x) == x

\* 1.0 - x for a double 0 <= x <= 1
OneMinus(x) ==
    Round53(IF x[2] = 0 THEN <<Limb - x[1], 0>> ELSE <<Limb - x[1] - 1, Limb - x[2]>>, 0, 1)

\* n * x for an int 0 <= n <= 7 and a double 0 <= x <= 1
IntTimes(n, x) ==
    LET lo == n * x[2]
    IN  Round53(<<n * x[1] + lo \div Limb, lo % Limb>>, 0, 1)

\* int(x): truncation of a double x >= 0
IntOf(x) == x[1] \div Limb

(***************************************************************************)
(* Doubles of textrank: similarities and centrality scores.                *)
(***************************************************************************)
ScoreUnit == 60 * 10^6
\* one step of a similarity: 0.000001
Grain == ScoreUnit \div 10^6

FNaN == [nan |-> TRUE, v |-> 0, ulp |-> 0]
FNum(x) == [nan |-> FALSE, v |-> x, ulp |-> 0]
FAdd(x, y) == IF x.nan \/ y.nan THEN FNaN ELSE FNum(x.v + y.v)
FSub(x, y) == IF x.nan \/ y.nan THEN FNaN ELSE FNum(x.v - y.v)
\* x / n for an int n > 0
FDivInt(x, n) == IF x.nan THEN FNaN ELSE FNum(x.v \div n)
\* the double of x that stands at rank b among the doubles of its real number
Rounded(x, b) == IF x.nan THEN x ELSE [x EXCEPT !.ulp = b]
\* two numbers less than one step apart: the six decimals do not tell them
\* apart, their last bits do
Close(x, y) == x.v - y.v < Grain /\ y.v - x.v < Grain
\* the comparisons of doubles: every comparison with nan is false
FLess(x, y) == ~x.nan /\ ~y.nan /\ (IF Close(x, y) THEN x.ulp < y.ulp ELSE x.v < y.v)
FEq(x, y) == ~x.nan /\ ~y.nan /\ Close(x, y) /\ x.ulp = y.ulp
FGeq(x, y) == ~x.nan /\ ~y.nan /\ ~FLess(x, y)
\* np.clip(x, lo, hi): nan stays nan
FClip(x, lo, hi) == IF x.nan THEN x ELSE IF x.v < lo THEN FNum(lo) ELSE IF x.v > hi THEN FNum(hi) ELSE x

(***************************************************************************)
(* The tokenizer adapter.                                                  *)
(***************************************************************************)
\* str.isalnum() of a token: every token but the marks and white space
IsAlnum(tok) == tok \notin Marks \cup {Space}

\* str.strip(): leading and trailing white space removed
RECURSIVE StripLeft(_)
StripLeft(s) == IF s # <<>> /\ Head(s) = Space THEN StripLeft(Tail(s)) ELSE s
RECURSIVE StripRight(_)
StripRight(s) ==
    IF s # <<>> /\ s[Len(s)] = Space THEN StripRight(SubSeq(s, 1, Len(s) - 1)) ELSE s
Strip(s) == StripLeft(StripRight(s))

\* import_source_text: the file's text, stripped
import_source_text(text) == Strip(text)

\* tokenize.sent_tokenize: a sentence ends after each sentence-ending mark; what
\* follows the last mark is a sentence too
RECURSIVE SentTokenize(_, _)
SentTokenize(text, cur) ==
    IF text = <<>> THEN (IF cur = <<>> THEN <<>> ELSE <<cur>>)
    ELSE IF Head(text) \in Marks
         THEN <<Append(cur, Head(text))>> \o SentTokenize(Tail(text), <<>>)
         ELSE SentTokenize(Tail(text), Append(cur, Head(text)))

tokenize_by_sentence(text) == SentTokenize(text, <<>>)

\* tokenize.word_tokenize followed by the isalnum filter
AlnumWords(text) == SelectSeq(text, IsAlnum)

\* the orders list(set(words)) can give: every arrangement of the distinct words
Arrangements(S) == {s \in [1..Cardinality(S) -> S] : Range(s) = S}
identify_unique_words(text) == Arrangements(Range(AlnumWords(text)))

(***************************************************************************)
(* The vectorizer.                                                         *)
(***************************************************************************)
\* the inner loop over k: the first column whose word is w (0: none)
RECURSIVE FirstColumn(_, _, _)
FirstColumn(w, vocabulary, k) ==
    IF k > Len(vocabulary) THEN 0
    ELSE IF w = vocabulary[k] THEN k
    ELSE FirstColumn(w, vocabulary, k + 1)

\* a slip: sentence_vector[k]=1 at line 54
RECURSIVE TallyPresence(_, _, _)
TallyPresence(words, vocabulary, vector) ==
    IF words = <<>> THEN vector
    ELSE LET k == FirstColumn(Head(words), vocabulary, 1)
         IN  TallyPresence(Tail(words), vocabulary,
                           IF k = 0 THEN vector ELSE [vector EXCEPT ![k] = 1])

\* the loop over j: one tally per word of the sentence
RECURSIVE Tally(_, _, _)
Tally(words, vocabulary, vector) ==
    IF words = <<>> THEN vector
    ELSE LET k == FirstColumn(Head(words), vocabulary, 1)
         IN  Tally(Tail(words), vocabulary,
                   IF k = 0 THEN vector ELSE [vector EXCEPT ![k] = @ + 1])

vectorize_sentences(sents, vocabulary) ==
    [i \in 1..Len(sents) |->
        Tally(AlnumWords(sents[i]), vocabulary, [k \in 1..Len(vocabulary) |-> 0])]

(***************************************************************************)
(* sorted(): CPython's list sort on the comparisons "a < b" of the keys.   *)
(* less[p][q] is the comparison of the keys of the entries at positions p  *)
(* and q of the list.  For a list of fewer than 64 entries the sort is:    *)
(* count_run finds the run the list starts with and makes it ascending,    *)
(* and binarysort inserts every later entry into it by binary search.      *)
(* With reverse=True the list is reversed before and after.  count_run     *)
(* was rewritten for CPython 3.13.  When "<" is a consistent order both    *)
(* give the stable sort; when it is not (nan among numbers) the list       *)
(* returned is what the steps of the interpreter at hand give, and the     *)
(* two differ.  The repository names no interpreter.                       *)
(***************************************************************************)
\* the list sorts: of CPython up to 3.12, and of CPython 3.13 and later
Interpreters == {"3.12", "3.13"}

Reverse(s) == [k \in 1..Len(s) |-> s[Len(s) + 1 - k]]

\* the entries from..to of arr reversed in place
ReverseSlice(arr, from, to) ==
    [k \in 1..Len(arr) |-> IF from <= k /\ k <= to THEN arr[from + to - k] ELSE arr[k]]

\* the length of the run at the start of arr, from entry k on; descending
\* tells which comparison of neighbours continues the run
RECURSIVE RunLength(_, _, _, _)
RunLength(arr, less, descending, k) ==
    IF k > Len(arr) THEN Len(arr)
    ELSE IF less[arr[k]][arr[k - 1]] = descending
         THEN RunLength(arr, less, descending, k + 1)
         ELSE k - 1

\* count_run up to CPython 3.12: the run is not descending, or strictly
\* descending and then reversed
CountRunStrict(arr, less) ==
    LET descending == less[arr[2]][arr[1]]
        n          == RunLength(arr, less, descending, 3)
    IN  [arr |-> IF descending THEN ReverseSlice(arr, 1, n) ELSE arr, n |-> n]

\* count_run of CPython 3.13, REVERSE_LAST_NEQ: the last neq + 1 of the
\* first n entries, all equal, reversed
ReverseLastEqual(arr, n, neq) ==
    IF neq = 0 THEN arr ELSE ReverseSlice(arr, n - neq, n)

\* count_run of CPython 3.13, the descending run: n entries are in it, the
\* last neq + 1 of them equal
RECURSIVE Descend(_, _, _, _)
Descend(arr, less, n, neq) ==
    IF n >= Len(arr) THEN [arr |-> arr, n |-> n, neq |-> neq]
    ELSE IF less[arr[n + 1]][arr[n]]
         THEN Descend(ReverseLastEqual(arr, n, neq), less, n + 1, 0)
    ELSE IF less[arr[n]][arr[n + 1]]
         THEN [arr |-> arr, n |-> n, neq |-> neq]
    ELSE Descend(arr, less, n + 1, neq + 1)

\* count_run of CPython 3.13: an ascending run; or, when its entries are all
\* equal and a smaller one follows, a descending run in which equal entries
\* keep their order, reversed and then extended while ascending
CountRunRelaxed(arr, less) ==
    LET n == RunLength(arr, less, FALSE, 2)
    IN  IF n = Len(arr) THEN [arr |-> arr, n |-> n]
        ELSE IF n > 1 /\ less[arr[1]][arr[n]] THEN [arr |-> arr, n |-> n]
        ELSE LET down == Descend(IF n > 1 THEN ReverseSlice(arr, 1, n) ELSE arr,
                                 less, n + 1, 0)
                 run  == ReverseSlice(ReverseLastEqual(down.arr, down.n, down.neq),
                                      1, down.n)
             IN  [arr |-> run, n |-> RunLength(run, less, FALSE, down.n + 1)]

\* binarysort's search: where pivot goes among the first r entries of arr
RECURSIVE BinarySearch(_, _, _, _, _)
BinarySearch(arr, less, pivot, l, r) ==
    IF l >= r THEN l
    ELSE LET m == l + (r - l) \div 2
         IN  IF less[pivot][arr[m + 1]]
             THEN BinarySearch(arr, less, pivot, l, m)
             ELSE BinarySearch(arr, less, pivot, m + 1, r)

\* binarysort: the entries from start on, inserted one by one
RECURSIVE BinarySort(_, _, _)
BinarySort(arr, less, start) ==
    IF start > Len(arr) THEN arr
    ELSE LET pivot == arr[start]
             l     == BinarySearch(arr, less, pivot, 0, start - 1)
         IN  BinarySort(SubSeq(arr, 1, l) \o <<pivot>> \o SubSeq(arr, l + 1, start - 1)
                            \o SubSeq(arr, start + 1, Len(arr)),
                        less, start + 1)

\* list.sort for a list of positions
SortPositions(arr, less, python) ==
    IF Len(arr) < 2 THEN arr
    ELSE LET run == IF python = "3.13" THEN CountRunRelaxed(arr, less)
                                         ELSE CountRunStrict(arr, less)
         IN  BinarySort(run.arr, less, run.n + 1)

PySorted(list, less, reverse, python) ==
    LET first == [k \in 1..Len(list) |-> k]
        order == IF reverse
                 THEN Reverse(SortPositions(Reverse(first), less, python))
                 ELSE SortPositions(first, less, python)
    IN  [k \in 1..Len(list) |-> list[order[k]]]

(***************************************************************************)
(* The ranker.  An entry of average_similarities is the list [i, score],   *)
(* here <<i, score>>: l[0] is entry[1] and l[1] is entry[2].               *)
(***************************************************************************)
RECURSIVE DotFrom(_, _, _)
DotFrom(u, v, k) == IF k > Len(u) THEN 0 ELSE u[k] * v[k] + DotFrom(u, v, k + 1)
Dot(u, v) == DotFrom(u, v, 1)

\* the next decimal digit of a square root: the largest x with
\* (20p + x) * x <= c, for the root p found so far and the remainder c
NextDigit(p, c) ==
    CHOOSE x \in 0..9 : (20 * p + x) * x <= c /\ (x = 9 \/ (20 * p + x + 1) * (x + 1) > c)

\* sqrt(uv^2 / m) cut to the steps of a similarity, by long division of uv^2
\* by m (remainder r) and digit-by-digit root extraction (root p, remainder
\* c), one decimal digit a turn
RECURSIVE RootFrom(_, _, _, _, _)
RootFrom(p, c, r, m, scale) ==
    IF scale = ScoreUnit \div Grain THEN p
    ELSE LET pair == (r * 100) \div m
             rest == 100 * c + pair
             x    == NextDigit(p, rest)
         IN  RootFrom(10 * p + x, rest - (20 * p + x) * x, (r * 100) % m, m, 10 * scale)

\* uv / sqrt(m), in steps of a similarity (0 <= uv^2 <= m); every digit of
\* the root of 0 is 0
Quotient(uv, m) ==
    LET whole == (uv * uv) \div m
    IN  IF uv = 0 THEN 0 ELSE RootFrom(whole, 0, (uv * uv) % m, m, 1)

\* spatial.distance.cosine(u, v) = clip(1.0 - u.v / sqrt(u.u * v.v), 0.0, 2.0);
\* for a zero vector the quotient is 0/0, which is nan (with a warning, no fault)
cosine(u, v) ==
    LET uv == Dot(u, v)
        m  == Dot(u, u) * Dot(v, v)
    IN  IF m = 0 THEN FNaN
        ELSE FClip(FSub(FNum(ScoreUnit), FNum(Grain * Quotient(uv, m))), 0, 2 * ScoreUnit)

\* line 76: similarity=1.0-spatial.distance.cosine(...)
similarity(u, v) == FSub(FNum(ScoreUnit), cosine(u, v))

\* a slip: no pair is passed over
SkipsPairNever(i, j) == FALSE

\* line 73: the pairs the inner loop passes over
SkipsPair(i, j) == i = j

\* lines 72-77 for one i: the accumulator of i and the pairs handed to cosine
RECURSIVE Populate(_, _, _, _)
Populate(vectors, i, j, row) ==
    IF j > Len(vectors) THEN row
    ELSE IF SkipsPair(i, j) THEN Populate(vectors, i, j + 1, row)
    ELSE Populate(vectors, i, j + 1,
                  [sum   |-> FAdd(row.sum, similarity(vectors[i], vectors[j])),
                   pairs |-> row.pairs \cup {<<i - 1, j - 1>>}])

Row(vectors, i) == Populate(vectors, i, 1, [sum |-> FNum(0), pairs |-> {}])

(***************************************************************************)
(* Which scores are the same double.  In every formula scipy has used,     *)
(* cosine(u, v) is computed from u.v, u.u and v.v alone, so two calls with *)
(* the same three numbers return the same double.  Calls whose results are *)
(* equal as real numbers return the same double also when every step is    *)
(* exact up to the last division (u.u and v.v are squares and the length   *)
(* of the vectors, by which some formulas divide, is a power of two), or    *)
(* when the numbers of one call are those of the other scaled by powers of *)
(* four.  Otherwise the two doubles may differ in the last bit.            *)
(***************************************************************************)
Least(a, b) == IF a <= b THEN a ELSE b
Greatest(a, b) == IF a <= b THEN b ELSE a

\* what a call of cosine computes from
SimKey(u, v) ==
    [uv |-> Dot(u, v), lo |-> Least(Dot(u, u), Dot(v, v)), hi |-> Greatest(Dot(u, u), Dot(v, v))]

\* uv1 / sqrt(lo1 * hi1) = uv2 / sqrt(lo2 * hi2)
SameValue(k1, k2) == k1.uv * k1.uv * k2.lo * k2.hi = k2.uv * k2.uv * k1.lo * k1.hi

IsSquare(n) == \E r \in 0..n : r * r = n

RECURSIVE IsPowerOf(_, _)
IsPowerOf(n, base) == n = 1 \/ (n > 1 /\ n % base = 0 /\ IsPowerOf(n \div base, base))

ByPowerOfFour(a, b) ==
    \/ (a % b = 0 /\ IsPowerOf(a \div b, 4))
    \/ (b % a = 0 /\ IsPowerOf(b \div a, 4))

\* two calls of cosine return the same double; a call on a zero vector
\* (lo = 0) returns nan, the same as another call only when that returns nan
SameDouble(k1, k2, length) ==
    IF k1.lo = 0 \/ k2.lo = 0 THEN k1.lo = 0 /\ k2.lo = 0
    ELSE \/ k1 = k2
         \/ k1.uv = 0 /\ k2.uv = 0
         \/ /\ k1.uv # 0 /\ k2.uv # 0
            /\ SameValue(k1, k2)
            /\ \/ /\ IsSquare(k1.lo) /\ IsSquare(k1.hi) /\ IsSquare(k2.lo) /\ IsSquare(k2.hi)
                  /\ IsPowerOf(length, 2)
               \/ ByPowerOfFour(k1.lo, k2.lo) /\ ByPowerOfFour(k1.hi, k2.hi)
               \/ ByPowerOfFour(k1.lo, k2.hi) /\ ByPowerOfFour(k1.hi, k2.lo)

\* the calls of cosine behind the accumulator of i, in the order of line 72,
\* without those that return 1.0 (similarity 0.0, which adds nothing)
Terms(vectors, i) ==
    LET js == SelectSeq([j \in 1..Len(vectors) |-> j],
                        LAMBDA j : ~SkipsPair(i, j) /\ Dot(vectors[i], vectors[j]) # 0)
    IN  [k \in 1..Len(js) |-> SimKey(vectors[i], vectors[js[k]])]

\* the accumulators of p and q are sums of the same doubles in the same
\* order (in either order when there are two)
SameScore(vectors, p, q) ==
    LET s == Terms(vectors, p)
        t == Terms(vectors, q)
        length == Len(vectors[1])
    IN  /\ Len(s) = Len(t)
        /\ \/ \A k \in 1..Len(s) : SameDouble(s[k], t[k], length)
           \/ /\ Len(s) = 2
              /\ SameDouble(s[1], t[2], length)
              /\ SameDouble(s[2], t[1], length)

\* the scores as real numbers
Exact(vectors) ==
    [i \in 1..Len(vectors) |-> FDivInt(Row(vectors, i).sum, Len(vectors) - 1)]

\* the last bits the scores of the vectors can have: the same for the same
\* double, any for scores the six decimals do not tell apart and that are
\* not the same double (ranks 0, 1, ... with no rank left out)
RoundingsOf(vectors, exact) ==
    LET n     == Len(vectors)
        close == {pq \in (1..n) \X (1..n) :
                     /\ pq[1] < pq[2]
                     /\ ~exact[pq[1]].nan /\ ~exact[pq[2]].nan
                     /\ Close(exact[pq[1]], exact[pq[2]])}
        same  == {pq \in close : SameScore(vectors, pq[1], pq[2])}
        apart == close \ same
    IN  IF apart = {} THEN {[p \in 1..n |-> 0]}
        ELSE {b \in [1..n -> 0..(n - 1)] :
                /\ \E top \in 0..(n - 1) : Range(b) = 0..top
                /\ \A p \in 1..n : (\A pq \in apart : p # pq[1] /\ p # pq[2]) => b[p] = 0
                /\ \A pq \in same : b[pq[1]] = b[pq[2]]}

Roundings(vectors) == UNION {RoundingsOf(vectors, exact) : exact \in {Exact(vectors)}}

\* a slip: the entries numbered from 1
AveragesFromOne(vectors, bits) ==
    LET exact == Exact(vectors)
    IN  [i \in 1..Len(vectors) |-> <<i, Rounded(exact[i], bits[i])>>]

\* lines 66-79: the entries [i, average similarity], in index order
Averages(vectors, bits) ==
    LET exact == Exact(vectors)
    IN  [i \in 1..Len(vectors) |-> <<i - 1, Rounded(exact[i], bits[i])>>]

CosinePairs(vectors) == UNION {Row(vectors, i).pairs : i \in 1..Len(vectors)}

\* line 81: key=lambda l:l[1]
RankKeyLess(a, b) == FLess(a[2], b[2])

\* a slip: reverse=True left out at line 81
RankAscending(list, python) ==
    PySorted(list, [p \in 1..Len(list) |-> [q \in 1..Len(list) |-> FLess(list[p][2], list[q][2])]],
             FALSE, python)

\* line 81
Rank(list, python) ==
    PySorted(list, [p \in 1..Len(list) |-> [q \in 1..Len(list) |-> RankKeyLess(list[p], list[q])]],
             TRUE, python)

\* a slip: the entries sorted as (score, vector) pairs, so that the vectors
\* (whose columns follow the vocabulary's order) break the ties
RECURSIVE LexLessFrom(_, _, _)
LexLessFrom(u, v, k) ==
    IF k > Len(u) THEN FALSE
    ELSE IF u[k] # v[k] THEN u[k] < v[k]
    ELSE LexLessFrom(u, v, k + 1)
textrank_vector_ties(vectors, bits, python) ==
    LET list == Averages(vectors, bits)
        less == [p \in 1..Len(list) |-> [q \in 1..Len(list) |->
                    \/ FLess(list[p][2], list[q][2])
                    \/ /\ ~FLess(list[q][2], list[p][2])
                       /\ LexLessFrom(vectors[p], vectors[q], 1)]]
    IN  PySorted(list, less, TRUE, python)

textrank(vectors, bits, python) == Rank(Averages(vectors, bits), python)

(***************************************************************************)
(* The summary assembler.                                                  *)
(***************************************************************************)
\* the double that compression_ratio holds
RatioValue(ratio) == DoubleOf(ratio.num, RatioDen)

\* line 88: int(len(average_similarities)*(1-compression_ratio))
KeepCount(n, ratio) == IntOf(IntTimes(n, OneMinus(RatioValue(ratio))))

\* a slip: list[0:k-1]
SliceShort(list, k) ==
    LET j == k - 1
        stop == IF j < 0 THEN (IF Len(list) + j < 0 THEN 0 ELSE Len(list) + j)
                ELSE IF j > Len(list) THEN Len(list) ELSE j
    IN  SubSeq(list, 1, stop)

\* a slip: list[k:]
SliceFrom(list, k) ==
    LET start == IF k < 0 THEN (IF Len(list) + k < 0 THEN 0 ELSE Len(list) + k)
                 ELSE IF k > Len(list) THEN Len(list) ELSE k
    IN  SubSeq(list, start + 1, Len(list))

\* list[0:k]
Slice(list, k) ==
    LET stop == IF k < 0 THEN (IF Len(list) + k < 0 THEN 0 ELSE Len(list) + k)
                ELSE IF k > Len(list) THEN Len(list) ELSE k
    IN  SubSeq(list, 1, stop)

\* a slip: the key of line 81, l[1], used again
KeepKeyLessByScore(a, b) == FLess(a[2], b[2])

\* line 88: key=lambda l:l[0]
KeepKeyLess(a, b) == a[1] < b[1]

SentencesToKeep(list, ratio, python) ==
    LET top == Slice(list, KeepCount(Len(list), ratio))
    IN  PySorted(top, [p \in 1..Len(top) |-> [q \in 1..Len(top) |-> KeepKeyLess(top[p], top[q])]],
                 FALSE, python)

\* lines 87-91: the sentences joined, each followed by a space, then stripped
Assemble(sents, keep) ==
    Strip(Concat([k \in 1..Len(keep) |-> sents[keep[k][1] + 1] \o <<Space>>]))

generate_summary(sents, list, ratio, python) ==
    Assemble(sents, SentencesToKeep(list, ratio, python))

(***************************************************************************)
(* validate_input and main.                                                *)
(***************************************************************************)
\* a slip: compression_ratio>=1.0 at line 101
validate_input_exclusive(ratio, path) ==
    IF ratio.type # "float"
    THEN [ok |-> FALSE, out |-> <<"Error. compression_ratio must be a floating point.">>]
    ELSE IF ratio.num < 0 \/ ratio.num >= RatioDen
    THEN [ok |-> FALSE, out |-> <<"Error. compression_ratio must be between 0.0 and 1.0, inclusive.">>]
    ELSE IF ~path.exists
    THEN [ok |-> FALSE, out |-> <<"Error. Source text file path does not exist.">>]
    ELSE IF path.ext # "txt"
    THEN [ok |-> FALSE, out |-> <<"Error. Source text file path must be of type '.txt'.">>]
    ELSE [ok |-> TRUE, out |-> <<>>]

\* compression_ratio is [type, num]: a value of that Python type, num/RatioDen
\* for a number; source_text_path is [exists, ext, reads]
validate_input(ratio, path) ==
    IF ratio.type # "float"
    THEN [ok |-> FALSE, out |-> <<"Error. compression_ratio must be a floating point.">>]
    ELSE IF ratio.num < 0 \/ ratio.num > RatioDen
    THEN [ok |-> FALSE, out |-> <<"Error. compression_ratio must be between 0.0 and 1.0, inclusive.">>]
    ELSE IF ~path.exists
    THEN [ok |-> FALSE, out |-> <<"Error. Source text file path does not exist.">>]
    ELSE IF path.ext # "txt"
    THEN [ok |-> FALSE, out |-> <<"Error. Source text file path must be of type '.txt'.">>]
    ELSE [ok |-> TRUE, out |-> <<>>]

\* line 124: source_text==""
IsEmptyText(text) == text = <<>>

\* a slip: len(sentences)<1
TooFewSentencesOffByOne(sents) == Len(sents) < 1

\* line 129: len(sentences)<2
TooFewSentences(sents) == Len(sents) < 2

NotReturned == <<>>

\* a line on standard output: which print wrote it (an error message of
\* validate_input, or line 139's summary) and its text
Printed(kind, text) == [kind |-> kind, text |-> text]
Returned(v) == <<v>>

\* lines 117-121
Validate ==
    /\ pc = "start"
    /\ LET r == validate_input(compression_ratio, source_text_path)
       IN  /\ calls' = Append(calls, "validate_input")
           /\ stdout' = stdout \o [k \in 1..Len(r.out) |-> Printed("error", <<r.out[k]>>)]
           /\ IF r.ok
              THEN pc' = "validated" /\ ret' = ret
              ELSE pc' = "done" /\ ret' = Returned(-1)
    /\ UNCHANGED <<compression_ratio, source_text_path, file_text, source_text, sentences,
                   unique_words_in_source, sentence_vectors, cosine_calls,
                   average_similarities, sentences_to_keep, summary>>

\* lines 123-126; when open() or read() raises (lines 21-22: the path is a
\* directory, or the bytes are not UTF-8), main ends in that uncaught
\* exception
Import ==
    /\ pc = "validated"
    /\ calls' = Append(calls, "import_source_text")
    /\ IF ~source_text_path.reads
       THEN pc' = "raised" /\ ret' = ret /\ source_text' = source_text
       ELSE /\ source_text' = import_source_text(file_text)
            /\ IF IsEmptyText(source_text')
               THEN pc' = "done" /\ ret' = Returned(-1)
               ELSE pc' = "imported" /\ ret' = ret
    /\ UNCHANGED <<compression_ratio, source_text_path, file_text, sentences,
                   unique_words_in_source, sentence_vectors, cosine_calls,
                   average_similarities, sentences_to_keep, summary, stdout>>

\* lines 128-131
Tokenize ==
    /\ pc = "imported"
    /\ calls' = Append(calls, "tokenize_by_sentence")
    /\ sentences' = tokenize_by_sentence(source_text)
    /\ IF TooFewSentences(sentences')
       THEN pc' = "done" /\ ret' = Returned(-1)
       ELSE pc' = "tokenized" /\ ret' = ret
    /\ UNCHANGED <<compression_ratio, source_text_path, file_text, source_text,
                   unique_words_in_source, sentence_vectors, cosine_calls,
                   average_similarities, sentences_to_keep, summary, stdout>>

\* line 132
UniqueWords ==
    /\ pc = "tokenized"
    /\ calls' = Append(calls, "identify_unique_words")
    /\ \E order \in identify_unique_words(source_text) : unique_words_in_source' = order
    /\ pc' = "unique"
    /\ UNCHANGED <<compression_ratio, source_text_path, file_text, source_text, sentences,
                   sentence_vectors, cosine_calls, average_similarities,
                   sentences_to_keep, summary, stdout, ret>>

\* line 134
Vectorize ==
    /\ pc = "unique"
    /\ calls' = Append(calls, "vectorize_sentences")
    /\ sentence_vectors' = vectorize_sentences(sentences, unique_words_in_source)
    /\ pc' = "vectorized"
    /\ UNCHANGED <<compression_ratio, source_text_path, file_text, source_text, sentences,
                   unique_words_in_source, cosine_calls, average_similarities,
                   sentences_to_keep, summary, stdout, ret>>

\* line 136; with one vector, line 79 divides by zero and main ends in an
\* uncaught ZeroDivisionError
TextRank ==
    /\ pc = "vectorized"
    /\ calls' = Append(calls, "textrank")
    /\ IF Len(sentence_vectors) = 1
       THEN /\ pc' = "raised"
            /\ UNCHANGED <<cosine_calls, average_similarities>>
       ELSE /\ pc' = "ranked"
            /\ cosine_calls' = CosinePairs(sentence_vectors)
            /\ \E bits \in Roundings(sentence_vectors) : \E python \in Interpreters :
                  average_similarities' = textrank(sentence_vectors, bits, python)
    /\ UNCHANGED <<compression_ratio, source_text_path, file_text, source_text, sentences,
                   unique_words_in_source, sentence_vectors, sentences_to_keep,
                   summary, stdout, ret>>

\* lines 138-140
Summarize ==
    /\ pc = "ranked"
    /\ calls' = Append(calls, "generate_summary")
    /\ \E python \in Interpreters :
          /\ sentences_to_keep' = SentencesToKeep(average_similarities, compression_ratio, python)
          /\ summary' = generate_summary(sentences, average_similarities, compression_ratio, python)
    /\ stdout' = Append(stdout, Printed("summary", summary'))
    /\ ret' = Returned(0)
    /\ pc' = "done"
    /\ UNCHANGED <<compression_ratio, source_text_path, file_text, source_text, sentences,
                   unique_words_in_source, sentence_vectors, cosine_calls,
                   average_similarities>>

(***************************************************************************)
(* The inputs.                                                             *)
(***************************************************************************)
FloatRatios == [type : {"float"}, num : (0 - 1)..(RatioDen + 1)]
ValidRatios == [type : {"float"}, num : 0..RatioDen]
OtherRatios == [type : {"int"}, num : {0, RatioDen}] \cup [type : {"str"}, num : {0}]
Ratios == FloatRatios \cup OtherRatios

\* a path: whether os.path.exists holds of it, what follows its last ".", and
\* whether open() and read() succeed on it (a regular file of UTF-8 text)
GoodPath == [exists |-> TRUE, ext |-> "txt", reads |-> TRUE]
Paths == {p \in [exists : BOOLEAN, ext : {"txt", "md"}, reads : BOOLEAN] : p.reads => p.exists}

Texts == SeqsUpTo(Tokens, MaxLen)
Files == Texts \cup {<<Space>> \o t \o <<Space>> : t \in SeqsUpTo(Tokens, 1)} \cup {<<Space>>}

Fresh ==
    /\ pc = "start"
    /\ source_text = <<>>
    /\ sentences = <<>>
    /\ unique_words_in_source = <<>>
    /\ sentence_vectors = <<>>
    /\ cosine_calls = {}
    /\ average_similarities = <<>>
    /\ sentences_to_keep = <<>>
    /\ summary = <<>>
    /\ stdout = <<>>
    /\ calls = <<>>
    /\ ret = NotReturned

Init ==
    /\ Fresh
    /\ \/ /\ compression_ratio \in ValidRatios
          /\ source_text_path = GoodPath
          /\ file_text \in Files
       \/ /\ compression_ratio \in Ratios
          /\ source_text_path \in Paths
          /\ ~(compression_ratio \in ValidRatios /\ source_text_path = GoodPath)
          /\ file_text \in SeqsUpTo(Tokens, 1)

Next ==
    \/ Validate
    \/ Import
    \/ Tokenize
    \/ UniqueWords
    \/ Vectorize
    \/ TextRank
    \/ Summarize

Spec == Init /\ [][Next]_vars

(***************************************************************************)
(* main on documents of four sentences: two of the same words among "a"   *)
(* and "b", one over a word "c" and one over a word "d", of up to MaxWords *)
(* words each, in every arrangement, at compression_ratio 0.5.             *)
(***************************************************************************)
Period == "."

SentencesOver(W) == {w \o <<Period>> : w \in SeqsUpTo(W, MaxWords) \ {<<>>}}

\* the arrangements of four sentences with A before B
Placements ==
    {f \in [1..4 -> {"A", "B", "C", "D"}] :
        /\ Range(f) = {"A", "B", "C", "D"}
        /\ \A i, j \in 1..4 : (f[i] = "A" /\ f[j] = "B") => i < j}

\* A and B hold the same words
Quartets ==
    {s \in [A : SentencesOver(Words), B : SentencesOver(Words),
            C : SentencesOver({"c"}), D : SentencesOver({"d"})] :
        Range(s.A) = Range(s.B)}

FourSentenceTexts == {Concat([i \in 1..4 |-> s[f[i]]]) : f \in Placements, s \in Quartets}

HalfRatio == [type |-> "float", num |-> RatioDen \div 2]

InitShared ==
    /\ Fresh
    /\ compression_ratio = HalfRatio
    /\ source_text_path = GoodPath
    /\ file_text \in FourSentenceTexts

SpecShared == InitShared /\ [][Next]_vars

(***************************************************************************)
(* generate_summary alone: main at line 138 with 2..MaxSentences sentences *)
(* and a ranked list of any order of the indices.  generate_summary reads  *)
(* the indices of the list only, so the scores are levels that give the    *)
(* order; they are not the scores textrank computes for these sentences.   *)
(***************************************************************************)
\* the ways n scores can compare: sentence i at level f[i] of 1..top
ScoreLevels(n) == {f \in [1..n -> 1..n] : \E top \in 1..n : Range(f) = 1..top}

\* the lists line 81 can return for n entries: every order of the indices,
\* with every pattern of equal scores, and the list of nan scores
RankedLists(n) ==
    UNION {{Rank([i \in 1..n |-> <<i - 1, FNum((f[i] - 1) * (ScoreUnit \div n))>>], python) :
                f \in ScoreLevels(n)}
               \cup {Rank([i \in 1..n |-> <<i - 1, FNaN>>], python)} : python \in Interpreters}

InitSummary ==
    /\ pc = "ranked"
    /\ compression_ratio \in ValidRatios
    /\ source_text_path = GoodPath
    /\ \E n \in 2..MaxSentences :
          /\ sentences = [i \in 1..n |-> <<IF i % 2 = 1 THEN "a" ELSE "b", ".">>]
          /\ average_similarities \in RankedLists(n)
    /\ source_text = Concat(sentences)
    /\ file_text = source_text
    /\ unique_words_in_source = <<"a", "b">>
    /\ sentence_vectors = vectorize_sentences(sentences, unique_words_in_source)
    /\ cosine_calls = CosinePairs(sentence_vectors)
    /\ sentences_to_keep = <<>>
    /\ summary = <<>>
    /\ stdout = <<>>
    /\ calls = <<"validate_input", "import_source_text", "tokenize_by_sentence",
                 "identify_unique_words", "vectorize_sentences", "textrank">>
    /\ ret = NotReturned

NextSummary == Summarize

SpecSummary == InitSummary /\ [][NextSummary]_vars

(***************************************************************************)
(* Properties.                                                             *)
(***************************************************************************)
Called(f) == f \in Range(calls)
Summarized == pc = "done" /\ Called("generate_summary")
IndicesOf(list) == [k \in 1..Len(list) |-> list[k][1]]
Count == Len(average_similarities)

\* the members of a set of numbers, smallest first
RECURSIVE Ascending(_)
Ascending(S) ==
    IF S = {} THEN <<>>
    ELSE LET least == CHOOSE x \in S : \A y \in S : x <= y
         IN  <<least>> \o Ascending(S \ {least})

\* the sentences at the given indices, each followed by a space, end trimmed
Joined(indices) ==
    LET text == Concat([k \in 1..Len(indices) |-> sentences[indices[k] + 1] \o <<Space>>])
    IN  IF text = <<>> THEN text ELSE SubSeq(text, 1, Len(text) - 1)

\* C1 (order preservation): whatever the ranked list and the compression
\* ratio, the sentences generate_summary keeps are in strictly ascending
\* original index, and the summary is those sentences in document order.
C1_OrderPreservation ==
    Summarized =>
        /\ \A k \in 1..(Len(sentences_to_keep) - 1) :
              sentences_to_keep[k][1] < sentences_to_keep[k + 1][1]
        /\ summary = Joined(Ascending(Range(IndicesOf(sentences_to_keep))))

\* a summary of two or more sentences whose rank order is not document order
C1_Witness ==
    /\ Summarized
    /\ Len(sentences_to_keep) >= 2
    /\ sentences_to_keep # SubSeq(average_similarities, 1, Len(sentences_to_keep))

\* C2 (output size): the number of sentences kept is exactly
\* floor(n * (1 - compression_ratio)), and lies in 0..n.
C2_OutputSize ==
    Summarized =>
        LET K == (Count * (RatioDen - compression_ratio.num)) \div RatioDen
        IN  /\ Len(sentences_to_keep) = K
            /\ K \in 0..Count

\* C8 (monotonic length): for the same ranked list, no compression ratio
\* above the one used keeps more sentences than were kept.
C8_MonotonicLength ==
    Summarized =>
        \A r2 \in ValidRatios : \A python \in Interpreters :
            r2.num >= compression_ratio.num =>
                Len(SentencesToKeep(average_similarities, r2, python)) <= Len(sentences_to_keep)

\* some sentences were kept, and a larger ratio keeps strictly fewer
C8_Witness ==
    /\ Summarized
    /\ Len(sentences_to_keep) >= 2
    /\ \E r2 \in ValidRatios : \A python \in Interpreters :
          /\ r2.num > compression_ratio.num
          /\ Len(SentencesToKeep(average_similarities, r2, python)) \in 1..(Len(sentences_to_keep) - 1)

(***************************************************************************)
(* Properties of the whole of main.                                        *)
(***************************************************************************)
Ranked == Called("textrank") /\ pc \in {"ranked", "done"}
IsZeroVector(v) == \A k \in 1..Len(v) : v[k] = 0
ScoreAt(p) == average_similarities[p][2]
VectorAt(p) == sentence_vectors[average_similarities[p][1] + 1]
Accepted == validate_input(compression_ratio, source_text_path).ok

\* C3 (top-K selection): the sentences kept are the first K entries of the
\* ranked list, and each of them has a centrality score greater than or
\* equal to that of every sentence left out.
C3_TopK ==
    Summarized =>
        LET K == Len(sentences_to_keep)
        IN  /\ Range(sentences_to_keep) = {average_similarities[p] : p \in 1..K}
            /\ \A p \in 1..K : \A q \in (K + 1)..Count : FGeq(ScoreAt(p), ScoreAt(q))

\* C4 (ranking order): the ranked list is in descending score, and entries
\* of equal score are in ascending original index.
C4_RankingOrder ==
    Ranked =>
        \A p \in 1..Count : \A q \in (p + 1)..Count :
            \/ FLess(ScoreAt(q), ScoreAt(p))
            \/ /\ FEq(ScoreAt(p), ScoreAt(q))
               /\ average_similarities[p][1] < average_similarities[q][1]

\* the sum of the similarities of sentence i to the sentences in js
RECURSIVE SumOfSimilarities(_, _)
SumOfSimilarities(i, js) ==
    IF js = {} THEN FNum(0)
    ELSE LET j == CHOOSE x \in js : \A y \in js : x >= y
         IN  FAdd(SumOfSimilarities(i, js \ {j}),
                  similarity(sentence_vectors[i], sentence_vectors[j]))

\* C5 (centrality formula): the score attached to index i is the sum of
\* similarity(i, j) over all j # i divided by n - 1, and similarity(i, i) is
\* never computed.
C5_CentralityFormula ==
    Ranked =>
        /\ \A p \in 1..Count :
              LET i == average_similarities[p][1] + 1
                  mean == FDivInt(SumOfSimilarities(i, (1..Count) \ {i}), Count - 1)
              IN  ScoreAt(p).nan = mean.nan /\ ScoreAt(p).v = mean.v
        /\ \A pair \in cosine_calls : pair[1] # pair[2]
        /\ Cardinality(cosine_calls) = Count * (Count - 1)

\* three or more sentences whose scores are numbers and not all the same
C5_Witness ==
    /\ Ranked
    /\ Count >= 3
    /\ \E p, q \in 1..Count : FLess(ScoreAt(q), ScoreAt(p)) /\ FLess(FNum(0), ScoreAt(q))

\* C6 (zero-vector fallback): a sentence with an all-zero vector has
\* similarity 0.0 to every other sentence and centrality 0.0, and is ranked
\* below every sentence of positive centrality.
C6_ZeroVectorFallback ==
    Ranked =>
        \A p \in 1..Count :
            IsZeroVector(VectorAt(p)) =>
                /\ \A q \in (1..Count) \ {p} : similarity(VectorAt(p), VectorAt(q)) = FNum(0)
                /\ ScoreAt(p) = FNum(0)
                /\ \A q \in 1..Count : FLess(FNum(0), ScoreAt(q)) => q < p

\* the last bits of the scores of this run, by sentence
LastBits ==
    [i \in 1..Count |->
        ScoreAt(CHOOSE p \in 1..Count : average_similarities[p][1] = i - 1).ulp]

\* the summary of this run's text and ratio, with the vocabulary in the given
\* order, this run's scipy and the given interpreter
SummaryWith(order, python) ==
    generate_summary(
        tokenize_by_sentence(source_text),
        textrank(vectorize_sentences(tokenize_by_sentence(source_text), order), LastBits, python),
        compression_ratio, python)

\* C7 (determinism): the summary main prints is the one every order of the
\* vocabulary columns gives for the same text and the same ratio, with the
\* same scipy (the last bits of the scores do not depend on the order of the
\* columns) and the same interpreter.
C7_Determinism ==
    Summarized =>
        /\ \E python \in Interpreters : summary = SummaryWith(unique_words_in_source, python)
        /\ \A python \in Interpreters : \A order \in identify_unique_words(source_text) :
              /\ Roundings(vectorize_sentences(tokenize_by_sentence(source_text), order))
                     = Roundings(sentence_vectors)
              /\ SummaryWith(order, python) = SummaryWith(unique_words_in_source, python)

\* a run whose vocabulary came out in another order than a, b, with tied
\* scores and a summary that keeps some sentences and drops others
C7_Witness ==
    /\ Summarized
    /\ unique_words_in_source = <<"b", "a">>
    /\ Len(sentences_to_keep) \in 1..(Count - 1)
    /\ \E p, q \in 1..Count : p # q /\ FEq(ScoreAt(p), ScoreAt(q))
    /\ \E p, q \in 1..Count : FLess(ScoreAt(p), ScoreAt(q))

\* C9 (boundary values): an accepted run on two or more sentences returns 0
\* and prints its summary; at ratio 0.0 the summary is every sentence in
\* original order, at ratio 1.0 it is empty.
C9_BoundaryValues ==
    (pc = "done" /\ Accepted /\ Len(tokenize_by_sentence(Strip(file_text))) >= 2) =>
        /\ ret = Returned(0)
        /\ stdout = <<Printed("summary", summary)>>
        /\ compression_ratio.num = 0 =>
              /\ IndicesOf(sentences_to_keep) = [k \in 1..Len(sentences) |-> k - 1]
              /\ summary = Joined([k \in 1..Len(sentences) |-> k - 1])
        /\ compression_ratio.num = RatioDen =>
              /\ sentences_to_keep = <<>>
              /\ summary = <<>>

\* a run at ratio 0.0 on three or more sentences whose rank order is not
\* the document's order
C9_Witness ==
    /\ Summarized
    /\ compression_ratio.num = 0
    /\ Count >= 3
    /\ IndicesOf(average_similarities) # [k \in 1..Count |-> k - 1]

\* C10 (refusal precedes computation): a text that is empty after trimming
\* is refused before tokenize_by_sentence is called, a text of fewer than two
\* sentences before vectorize_sentences is called, and textrank only ever
\* runs on two or more vectors.
C10_RefusalPrecedes ==
    LET text == Strip(file_text)
        few  == Len(tokenize_by_sentence(text)) < 2
    IN  /\ text = <<>> => ~Called("tokenize_by_sentence")
        /\ (text = <<>> \/ few) =>
              /\ ~Called("identify_unique_words")
              /\ ~Called("vectorize_sentences")
              /\ ~Called("textrank")
              /\ pc = "done" => ret = Returned(0 - 1)
        /\ Called("textrank") => Len(sentence_vectors) >= 2
        /\ pc = "raised" => ~Called("textrank")

\* a one-sentence text refused after tokenize_by_sentence
C10_Witness ==
    /\ pc = "done"
    /\ ret = Returned(0 - 1)
    /\ Len(sentences) = 1
    /\ calls = <<"validate_input", "import_source_text", "tokenize_by_sentence">>

RatioMessages ==
    {Printed("error", <<"Error. compression_ratio must be a floating point.">>),
     Printed("error", <<"Error. compression_ratio must be between 0.0 and 1.0, inclusive.">>)}

\* C11 (configuration refusal): a compression_ratio that is not a float, or
\* is below 0.0 or above 1.0, makes main return -1 with nothing read,
\* tokenized, vectorized or ranked; a float in [0.0, 1.0] passes the checks
\* of compression_ratio.
C11_ConfigurationRefusal ==
    LET refused == \/ compression_ratio.type # "float"
                   \/ compression_ratio.num < 0
                   \/ compression_ratio.num > RatioDen
    IN  /\ refused =>
              /\ pc \in {"start", "done"}
              /\ pc = "done" => ret = Returned(0 - 1) /\ stdout # <<>> /\ stdout[1] \in RatioMessages
              /\ calls \in {<<>>, <<"validate_input">>}
              /\ source_text = <<>> /\ sentences = <<>>
              /\ sentence_vectors = <<>> /\ average_similarities = <<>>
        /\ ~refused =>
              /\ \A k \in 1..Len(stdout) : stdout[k] \notin RatioMessages
              /\ (pc # "start" /\ source_text_path = GoodPath) =>
                    pc = "validated" \/ Called("import_source_text")

\* main has returned -1 on a float ratio above 1.0, having called only validate_input
C11_Witness ==
    /\ pc = "done"
    /\ ret = Returned(0 - 1)
    /\ compression_ratio.type = "float"
    /\ compression_ratio.num > RatioDen
    /\ source_text_path = GoodPath
    /\ calls = <<"validate_input">>


\* C12 (no partial summary): at every point of main a summary has been
\* printed exactly when main has returned 0; a return of -1 leaves no summary
\* built or printed; main never ends in an uncaught exception, it ends only by
\* returning 0 or -1, and until it has returned it stands at one of its steps.
C12_NoPartialSummary ==
    LET emitted == \E k \in 1..Len(stdout) : stdout[k].kind = "summary"
    IN  /\ emitted <=> ret = Returned(0)
        /\ ret = Returned(0 - 1) =>
              /\ summary = <<>> /\ sentences_to_keep = <<>>
              /\ ~Called("generate_summary")
        /\ ret = Returned(0) => stdout = <<Printed("summary", summary)>>
        /\ ret \in {NotReturned, Returned(0), Returned(0 - 1)}
        /\ pc = "done" <=> ret # NotReturned
        /\ pc # "raised"
        /\ pc # "done" => pc \in {"start", "validated", "imported", "tokenized",
                                  "unique", "vectorized", "ranked"}

\* the distinct alphanumeric words of a sentence
WordsOf(sentence) == Range(AlnumWords(sentence))

\* sentences i and j use the same words, and every other sentence uses words
\* of its own, found in no other sentence
SharedWords(i, j) ==
    /\ WordsOf(sentences[i]) = WordsOf(sentences[j])
    /\ WordsOf(sentences[i]) # {}
    /\ \A c \in (1..Len(sentences)) \ {i, j} :
          /\ WordsOf(sentences[c]) # {}
          /\ \A k \in (1..Len(sentences)) \ {c} :
                WordsOf(sentences[c]) \cap WordsOf(sentences[k]) = {}

\* C13 (shared-words scenario): main, run at compression_ratio 0.5 on a
\* document of four sentences of which two, i before j, consist of the same
\* words and the other two each use words found in no other sentence, keeps
\* two sentences, i and j, and prints them in that order, wherever i and j
\* stand.
C13_SharedWordsScenario ==
    (Summarized /\ Len(sentences) = 4 /\ RatioValue(compression_ratio) = DoubleOf(1, 2)) =>
        \A i, j \in 1..4 :
            (i < j /\ SharedWords(i, j)) =>
                /\ Len(sentences_to_keep) = 2
                /\ IndicesOf(sentences_to_keep) = <<i - 1, j - 1>>
                /\ summary = Joined(<<i - 1, j - 1>>)
                /\ summary = sentences[i] \o <<Space>> \o sentences[j]
                /\ stdout = <<Printed("summary", summary)>>

\* the two sentences of the same words stand last, after the two others, and
\* differ in the order of their words
C13_Witness ==
    /\ Summarized
    /\ Len(sentences) = 4
    /\ RatioValue(compression_ratio) = DoubleOf(1, 2)
    /\ SharedWords(3, 4)
    /\ sentences[3] # sentences[4]
    /\ Cardinality(WordsOf(sentences[3])) = 2
    /\ IndicesOf(sentences_to_keep) = <<2, 3>>

RECURSIVE SumFrom(_, _)
SumFrom(v, k) == IF k > Len(v) THEN 0 ELSE v[k] + SumFrom(v, k + 1)

Occurrences(w, sentence) == Cardinality({j \in 1..Len(sentence) : sentence[j] = w})

\* C14 (vectorization): once the sentences are vectorized there is one vector
\* per sentence, each as long as the vocabulary; entry k is the number of
\* occurrences in the sentence of the vocabulary word at column k, a natural
\* number; the vocabulary holds each word once, and the entries of a vector
\* sum to the number of alphanumeric tokens of the sentence that are in the
\* vocabulary.
C14_Vectorization ==
    Called("vectorize_sentences") =>
        LET vocabulary == unique_words_in_source
        IN  /\ Len(sentence_vectors) = Len(sentences)
            /\ \A k, l \in 1..Len(vocabulary) : vocabulary[k] = vocabulary[l] => k = l
            /\ \A i \in 1..Len(sentences) :
                  LET vector == sentence_vectors[i]
                      tokens == {j \in 1..Len(sentences[i]) :
                                    /\ IsAlnum(sentences[i][j])
                                    /\ sentences[i][j] \in Range(vocabulary)}
                  IN  /\ Len(vector) = Len(vocabulary)
                      /\ \A k \in 1..Len(vocabulary) :
                            /\ vector[k] \in Nat
                            /\ vector[k] = Occurrences(vocabulary[k], sentences[i])
                      /\ SumFrom(vector, 1) = Cardinality(tokens)

\* a two-word vocabulary and a sentence that holds one of its words twice
C14_Witness ==
    /\ Called("vectorize_sentences")
    /\ Len(unique_words_in_source) = 2
    /\ \E i \in 1..Len(sentence_vectors) : \E k \in 1..2 :
          /\ sentence_vectors[i][k] >= 2
          /\ \E l \in 1..Len(sentence_vectors) : sentence_vectors[l][k] = 0

RECURSIVE IsSubsequence(_, _)
IsSubsequence(s, t) ==
    IF s = <<>> THEN TRUE
    ELSE IF t = <<>> THEN FALSE
    ELSE IF Head(s) = Head(t) THEN IsSubsequence(Tail(s), Tail(t))
    ELSE IsSubsequence(s, Tail(t))

\* C15 (nested summaries): for the same ranked list, the sentences kept at
\* any compression ratio at or above the one used are a subsequence of the
\* sentences kept, and so is the text assembled from them.
C15_NestedSummaries ==
    Summarized =>
        \A r2 \in ValidRatios : \A python \in Interpreters :
            r2.num >= compression_ratio.num =>
                LET keep2 == SentencesToKeep(average_similarities, r2, python)
                IN  /\ IsSubsequence(IndicesOf(keep2), IndicesOf(sentences_to_keep))
                    /\ IsSubsequence(generate_summary(sentences, average_similarities, r2, python),
                                     summary)

\* three or more sentences kept out of index order in the ranking, and a
\* higher ratio that keeps some but not all of them
C15_Witness ==
    /\ Summarized
    /\ Len(sentences_to_keep) >= 3
    /\ IndicesOf(average_similarities) # [k \in 1..Count |-> k - 1]
    /\ \E r2 \in ValidRatios : \A python \in Interpreters :
          /\ r2.num > compression_ratio.num
          /\ Len(SentencesToKeep(average_similarities, r2, python)) \in 1..(Len(sentences_to_keep) - 1)
          /\ IndicesOf(SentencesToKeep(average_similarities, r2, python))
                 # SubSeq(IndicesOf(sentences_to_keep), 1,
                          Len(SentencesToKeep(average_similarities, r2, python)))

\* C16 (ranking is a permutation): textrank returns one entry per sentence
\* vector and the entries' indices are 0..n-1, each once; every entry
\* generate_summary keeps is an entry of the ranking, its index is the index
\* of a sentence, and no index is kept twice.
C16_RankingIsPermutation ==
    /\ Ranked =>
          /\ Count = Len(sentence_vectors)
          /\ Count = Len(sentences)
          /\ Range(IndicesOf(average_similarities)) = 0..(Count - 1)
          /\ \A p, q \in 1..Count :
                average_similarities[p][1] = average_similarities[q][1] => p = q
    /\ Summarized =>
          /\ Range(sentences_to_keep) \subseteq Range(average_similarities)
          /\ \A p \in 1..Len(sentences_to_keep) :
                sentences_to_keep[p][1] \in 0..(Len(sentences) - 1)
          /\ \A p, q \in 1..Len(sentences_to_keep) :
                sentences_to_keep[p][1] = sentences_to_keep[q][1] => p = q

\* a text of three or more sentences that textrank ranks out of index order,
\* summarized with two or more of them
C16_Witness ==
    /\ Summarized
    /\ Called("textrank")
    /\ Count >= 3
    /\ IndicesOf(average_similarities) # [k \in 1..Count |-> k - 1]
    /\ Len(sentences_to_keep) >= 2

====
